---- MODULE Spec2Model ----
(***************************************************************************)
(* Teacher time tracking: the Express handlers of server/routes.ts over    *)
(* the in-memory store of server/storage.ts.  Requests are processed one   *)
(* at a time; each handler is one action, followed by EndRequest.          *)
(*                                                                         *)
(* Representation                                                          *)
(*   - a nullable value is a sequence of length 0 (null) or 1;             *)
(*   - an instant is a whole number of hours since the model epoch,        *)
(*     2024-01-31T00:00:00Z; Date.getTime() is GetTime(t);                 *)
(*   - a 'YYYY-MM-DD' date string is its day number since the epoch;       *)
(*   - a decimal string is a sequence of characters, read by ParseFloat    *)
(*     and written by NumToString; a JS number is [nan, v];                *)
(*   - a UUID is the value of a counter that is never reused;              *)
(*   - inflight holds the requests whose handler is suspended at an await, *)
(*     for the specification in which handlers overlap.                    *)
(***************************************************************************)
EXTENDS Integers, Sequences, FiniteSets, TLC

VARIABLES teachers, timeEntries, appSettings, session, now,
          nextTeacherId, nextEntryId, last, inflight

vars == <<teachers, timeEntries, appSettings, session, now,
          nextTeacherId, nextEntryId, last, inflight>>

store == <<teachers, timeEntries, appSettings>>

(***************************************************************************)
(* Bounds                                                                  *)
(***************************************************************************)
MaxTeachers == 1

MaxEntries == 2

MaxTime == 24

\* requests whose handlers may overlap
MaxInFlight == 2

(***************************************************************************)
(* Program constants                                                       *)
(***************************************************************************)
MsPerHour == 3600000

HoursPerDay == 24

MinPinLen == 4

MaxPinLen == 6

(***************************************************************************)
(* Nullable values                                                         *)
(***************************************************************************)
None == <<>>

Some(x) == <<x>>

(***************************************************************************)
(* JS numbers and decimal strings                                          *)
(***************************************************************************)
NaN == [nan |-> TRUE, v |-> 0]

Num(n) == [nan |-> FALSE, v |-> n]

DigitChars == <<"0", "1", "2", "3", "4", "5", "6", "7", "8", "9">>

IsDigit(c) == \E i \in 1..10 : DigitChars[i] = c

DigitVal(c) == (CHOOSE i \in 1..10 : DigitChars[i] = c) - 1

RECURSIVE ParseDigits(_, _, _)
ParseDigits(s, i, acc) ==
    IF i > Len(s) \/ ~IsDigit(s[i]) THEN acc
    ELSE ParseDigits(s, i + 1, acc * 10 + DigitVal(s[i]))

\* parseFloat on a string without a fractional part: optional sign, then the
\* longest prefix of digits; NaN when there is no digit.
ParseFloat(s) ==
    LET neg   == Len(s) > 0 /\ s[1] = "-"
        start == IF neg THEN 2 ELSE 1
    IN  IF start > Len(s) \/ ~IsDigit(s[start]) THEN NaN
        ELSE Num((IF neg THEN -1 ELSE 1) * ParseDigits(s, start, 0))

RECURSIVE NatToString(_)
NatToString(n) ==
    IF n < 10 THEN <<DigitChars[n + 1]>>
    ELSE NatToString(n \div 10) \o <<DigitChars[(n % 10) + 1]>>

\* Number.prototype.toString
NumToString(x) ==
    IF x.nan THEN <<"N", "a", "N">>
    ELSE IF x.v < 0 THEN <<"-">> \o NatToString(-x.v)
    ELSE NatToString(x.v)

MathMin(a, b) ==
    IF a.nan \/ b.nan THEN NaN
    ELSE IF a.v <= b.v THEN a ELSE b

Times(a, b) == IF a.nan \/ b.nan THEN NaN ELSE Num(a.v * b.v)

(***************************************************************************)
(* Dates                                                                   *)
(***************************************************************************)
GetTime(t) == t * MsPerHour

\* 1970-01-01T00:00:00Z, in hours before the model epoch
UnixEpoch == 0 - (19753 * HoursPerDay)

\* now.toISOString().split('T')[0]
IsoDate(t) == t \div HoursPerDay

\* calendar of the model epoch: day 0 is 2024-01-31, day d > 0 is 2024-02-d
MonthOf(date) == IF date = 0 THEN 1 ELSE 2

YearOf(date) == 2024

(***************************************************************************)
(* Inputs                                                                  *)
(***************************************************************************)
Sessions == {"A"}

TickSteps == {12}

Pins == {"1234", "9999", "12"}

\* ids a request may name; ids are allocated from 1, so 0 is stored only where
\* a run starts with a teacher created beforehand
TeacherIds == 0..MaxTeachers

Str(n) == NumToString(Num(n))

CreateBodies ==
    { [name |-> "Ann", hourlyRate |-> Str(20), maxBillableHours |-> Str(8)],
      [name |-> "Ann", hourlyRate |-> Str(20), maxBillableHours |-> Str(8),
       isCheckedIn |-> TRUE],
      [name |-> "Ann"] }

PatchBodies ==
    { [isCheckedIn |-> TRUE],
      [hourlyRate |-> Str(30), maxBillableHours |-> Str(16)] }

\* bodies the add-teacher form never sends (its handleSubmit refuses them) but
\* any client can: an empty name, a zero, negative or non-numeric decimal
InvalidCreateBodies ==
    { [name |-> "", hourlyRate |-> Str(20), maxBillableHours |-> Str(8)],
      [name |-> "Ann", hourlyRate |-> Str(0), maxBillableHours |-> Str(8)],
      [name |-> "Ann", hourlyRate |-> <<"a", "b", "c">>, maxBillableHours |-> Str(8)],
      [name |-> "Ann", hourlyRate |-> Str(20), maxBillableHours |-> Str(0 - 1)] }

\* a PATCH body naming the id column, with an id no teacher was created under
IdPatchBodies == { [id |-> 0 - 1] }

\* PATCH bodies with a negative rate and cap, and with the status column
NegativePatchBodies ==
    { [hourlyRate |-> Str(0 - 5), maxBillableHours |-> Str(0 - 1)] }

StatusPatchBodies == { [isCheckedIn |-> FALSE] }

AnyPatchBodies ==
    PatchBodies \cup IdPatchBodies \cup NegativePatchBodies \cup StatusPatchBodies

Queries ==
    { [month |-> None, year |-> None],
      [month |-> Some(1), year |-> None],
      [month |-> Some(2), year |-> Some(2024)] }

(***************************************************************************)
(* MemStorage                                                              *)
(***************************************************************************)
\* { ...a, ...b }
Merge(a, b) ==
    [f \in (DOMAIN a) \cup (DOMAIN b) |-> IF f \in DOMAIN b THEN b[f] ELSE a[f]]

getTeacher(id) == IF id \in DOMAIN teachers THEN Some(teachers[id]) ELSE None

createTeacher(insertTeacher) ==
    (nextTeacherId :> Merge(insertTeacher,
                            [id |-> nextTeacherId,
                             isCheckedIn |-> FALSE,
                             currentCheckInTime |-> None])) @@ teachers

\* variant: the update is applied to every stored teacher
updateTeacher_Everyone(ts, id, updates) ==
    IF id \notin DOMAIN ts THEN ts
    ELSE [k \in DOMAIN ts |-> Merge(ts[k], updates)]

updateTeacher(ts, id, updates) ==
    IF id \notin DOMAIN ts THEN ts
    ELSE [ts EXCEPT ![id] = Merge(@, updates)]

deleteTeacher(id) == [k \in (DOMAIN teachers) \ {id} |-> teachers[k]]

getTimeEntries == timeEntries

getTimeEntriesByTeacher(teacherId) ==
    SelectSeq(timeEntries, LAMBDA e : e.teacherId = teacherId)

createTimeEntry(insertTimeEntry) ==
    Append(timeEntries,
           Merge(insertTimeEntry,
                 [id |-> nextEntryId,
                  checkOutTime |-> insertTimeEntry.checkOutTime,
                  hoursWorked |-> None,
                  billableHours |-> None,
                  pay |-> None]))

\* variant: the update is applied to every stored entry
updateTimeEntry_Every(id, updates) ==
    [i \in DOMAIN timeEntries |-> Merge(timeEntries[i], updates)]

updateTimeEntry(id, updates) ==
    [i \in DOMAIN timeEntries |->
        IF timeEntries[i].id = id THEN Merge(timeEntries[i], updates)
        ELSE timeEntries[i]]

\* bcrypt.hash / bcrypt.compare: a hash matches exactly the PIN it was made of
BcryptHash(pin) == <<"bcrypt", pin>>

BcryptCompare(pin, hash) == hash = BcryptHash(pin)

\* variant: without settings every PIN is accepted
validatePin_NoSettingsTrue(settings, pin) ==
    IF settings = None THEN TRUE
    ELSE BcryptCompare(pin, settings[1].pinHash)

validatePin(settings, pin) ==
    IF settings = None THEN FALSE
    ELSE BcryptCompare(pin, settings[1].pinHash)

createAppSettings(pinHash) == Some([pinHash |-> pinHash])

\* variant: the settings survive
resetAllData_KeepSettings ==
    [teachers |-> <<>>, timeEntries |-> <<>>, appSettings |-> appSettings]

resetAllData == [teachers |-> <<>>, timeEntries |-> <<>>, appSettings |-> None]

(***************************************************************************)
(* Schemas                                                                 *)
(***************************************************************************)
\* pinSetupSchema / pinValidationSchema: z.string().min(4).max(6)
PinSchemaOk(pin) == Len(pin) >= MinPinLen /\ Len(pin) <= MaxPinLen

\* insertTeacherSchema: the columns of teachers without id, isCheckedIn and
\* currentCheckInTime
InsertTeacherKeys == {"name", "hourlyRate", "maxBillableHours"}

\* insertTeacherSchema.parse throws unless the three columns are present
InsertTeacherOk(body) == InsertTeacherKeys \subseteq DOMAIN body

\* insertTeacherSchema.parse keeps the schema's keys and strips the others
InsertTeacherParse(body) == [f \in InsertTeacherKeys |-> body[f]]

(***************************************************************************)
(* Responses                                                               *)
(***************************************************************************)
Reply(op, status, body) == [op |-> op, status |-> status, body |-> body]

\* no response is being sent: the server is between two requests
NoReply == Reply("none", 0, [message |-> ""])

Idle == last = NoReply

\* a handler suspended at an await: its request, the await it waits at and the
\* values of its local variables
Slots == 1..MaxInFlight

Free ==
    [op |-> "free", pc |-> "free", s |-> "", id |-> 0, pin |-> "",
     read |-> None, teacher |-> None, at |-> None, updates |-> None,
     entry |-> None, reply |-> NoReply]

NoneInFlight == [r \in Slots |-> Free]

\* variant: the session flag is not consulted
IsAdmin_Always(s) == TRUE

\* (req as any).session?.isAdmin || false
IsAdmin(s) == session[s]

(***************************************************************************)
(* Initial state                                                           *)
(***************************************************************************)
Init ==
    /\ teachers = <<>>
    /\ timeEntries = <<>>
    /\ appSettings = None
    /\ session = [s \in Sessions |-> FALSE]
    /\ now = 0
    /\ nextTeacherId = 1
    /\ nextEntryId = 1
    /\ last = NoReply
    /\ inflight = NoneInFlight

(***************************************************************************)
(* The clock                                                               *)
(***************************************************************************)
Tick(d) ==
    /\ Idle
    /\ UNCHANGED inflight
    /\ now + d <= MaxTime
    /\ now' = now + d
    /\ UNCHANGED <<teachers, timeEntries, appSettings, session,
                   nextTeacherId, nextEntryId, last>>

(***************************************************************************)
(* Settings and authentication handlers                                    *)
(***************************************************************************)
\* GET /api/settings/pin-setup
GetPinSetup ==
    /\ Idle
    /\ UNCHANGED inflight
    /\ /\ last' = Reply("pin-setup", 200, [hasPin |-> appSettings # None])
       /\ UNCHANGED <<teachers, timeEntries, appSettings, session, now,
                      nextTeacherId, nextEntryId>>

\* variant: the existing settings are not tested
PinAlreadySetUp_Never(settings) == FALSE

\* if (settings)
PinAlreadySetUp(settings) == settings # None

\* variant: a further setup replaces the stored hash
SetupPin_ChangesPin(pin) ==
    /\ Idle
    /\ UNCHANGED inflight
    /\ /\ IF ~PinSchemaOk(pin)
          THEN /\ last' = Reply("setup-pin", 400, [message |-> "Invalid PIN format"])
               /\ UNCHANGED appSettings
          ELSE /\ appSettings' = createAppSettings(BcryptHash(pin))
               /\ last' = Reply("setup-pin", 200, [message |-> "PIN set up successfully"])
       /\ UNCHANGED <<teachers, timeEntries, session, now, nextTeacherId, nextEntryId>>

\* POST /api/settings/setup-pin
SetupPin(pin) ==
    /\ Idle
    /\ UNCHANGED inflight
    /\ /\ IF ~PinSchemaOk(pin)
          THEN /\ last' = Reply("setup-pin", 400, [message |-> "Invalid PIN format"])
               /\ UNCHANGED appSettings
          ELSE IF PinAlreadySetUp(appSettings)
          THEN /\ last' = Reply("setup-pin", 400, [message |-> "PIN already set up"])
               /\ UNCHANGED appSettings
          ELSE /\ appSettings' = createAppSettings(BcryptHash(pin))
               /\ last' = Reply("setup-pin", 200, [message |-> "PIN set up successfully"])
       /\ UNCHANGED <<teachers, timeEntries, session, now, nextTeacherId, nextEntryId>>

\* variant: a well-formed PIN that does not match is accepted
ValidatePin_WrongPinAccepted(s, pin) ==
    /\ Idle
    /\ UNCHANGED inflight
    /\ /\ IF ~PinSchemaOk(pin)
          THEN /\ last' = Reply("validate-pin", 400, [message |-> "Invalid PIN format"])
               /\ UNCHANGED session
          ELSE /\ session' = [session EXCEPT ![s] = TRUE]
               /\ last' = Reply("validate-pin", 200, [message |-> "PIN validated successfully"])
       /\ UNCHANGED <<teachers, timeEntries, appSettings, now, nextTeacherId, nextEntryId>>

\* POST /api/auth/validate-pin
ValidatePin(s, pin) ==
    /\ Idle
    /\ UNCHANGED inflight
    /\ /\ IF ~PinSchemaOk(pin)
          THEN /\ last' = Reply("validate-pin", 400, [message |-> "Invalid PIN format"])
               /\ UNCHANGED session
          ELSE IF ~validatePin(appSettings, pin)
          THEN /\ last' = Reply("validate-pin", 401, [message |-> "Invalid PIN"])
               /\ UNCHANGED session
          ELSE /\ session' = [session EXCEPT ![s] = TRUE]
               /\ last' = Reply("validate-pin", 200, [message |-> "PIN validated successfully"])
       /\ UNCHANGED <<teachers, timeEntries, appSettings, now, nextTeacherId, nextEntryId>>

\* GET /api/auth/check-admin
CheckAdmin(s) ==
    /\ Idle
    /\ UNCHANGED inflight
    /\ /\ last' = Reply("check-admin", 200, [isAdmin |-> IsAdmin(s)])
       /\ UNCHANGED <<teachers, timeEntries, appSettings, session, now,
                      nextTeacherId, nextEntryId>>

\* variant: one flag shared by all sessions
Logout_AllSessions(s) ==
    /\ Idle
    /\ UNCHANGED inflight
    /\ /\ session' = [t \in DOMAIN session |-> FALSE]
       /\ last' = Reply("logout", 200, [message |-> "Logged out successfully"])
       /\ UNCHANGED <<teachers, timeEntries, appSettings, now, nextTeacherId, nextEntryId>>

\* POST /api/auth/logout
Logout(s) ==
    /\ Idle
    /\ UNCHANGED inflight
    /\ /\ session' = [session EXCEPT ![s] = FALSE]
       /\ last' = Reply("logout", 200, [message |-> "Logged out successfully"])
       /\ UNCHANGED <<teachers, timeEntries, appSettings, now, nextTeacherId, nextEntryId>>

\* variant: the reset is refused without the admin flag
Reset_AdminOnly(s) ==
    /\ Idle
    /\ UNCHANGED inflight
    /\ IF ~IsAdmin(s)
       THEN /\ last' = Reply("reset", 403, [message |-> "Admin access required"])
            /\ UNCHANGED <<teachers, timeEntries, appSettings, session, now,
                           nextTeacherId, nextEntryId>>
       ELSE /\ teachers' = resetAllData.teachers
            /\ timeEntries' = resetAllData.timeEntries
            /\ appSettings' = resetAllData.appSettings
            /\ session' = [session EXCEPT ![s] = FALSE]
            /\ last' = Reply("reset", 200, [message |-> "All data reset successfully"])
            /\ UNCHANGED <<now, nextTeacherId, nextEntryId>>

\* POST /api/settings/reset
Reset(s) ==
    /\ Idle
    /\ UNCHANGED inflight
    /\ /\ teachers' = resetAllData.teachers
       /\ timeEntries' = resetAllData.timeEntries
       /\ appSettings' = resetAllData.appSettings
       /\ session' = [session EXCEPT ![s] = FALSE]
       /\ last' = Reply("reset", 200, [message |-> "All data reset successfully"])
       /\ UNCHANGED <<now, nextTeacherId, nextEntryId>>

(***************************************************************************)
(* Teacher handlers (admin only)                                           *)
(***************************************************************************)
Forbidden(op) ==
    /\ last' = Reply(op, 403, [message |-> "Admin access required"])
    /\ UNCHANGED <<teachers, timeEntries, appSettings, session, now,
                   nextTeacherId, nextEntryId>>

\* POST /api/teachers
CreateTeacher(s, body) ==
    /\ Idle
    /\ UNCHANGED inflight
    /\ IF ~IsAdmin(s) THEN Forbidden("create-teacher")
       ELSE IF ~InsertTeacherOk(body)
       THEN /\ last' = Reply("create-teacher", 400, [message |-> "Invalid teacher data"])
            /\ UNCHANGED <<teachers, timeEntries, appSettings, session, now,
                           nextTeacherId, nextEntryId>>
       ELSE /\ nextTeacherId <= MaxTeachers
            /\ teachers' = createTeacher(InsertTeacherParse(body))
            /\ nextTeacherId' = nextTeacherId + 1
            /\ last' = Reply("create-teacher", 201, teachers'[nextTeacherId])
            /\ UNCHANGED <<timeEntries, appSettings, session, now, nextEntryId>>

\* PATCH /api/teachers/:id
PatchTeacher(s, id, body) ==
    /\ Idle
    /\ UNCHANGED inflight
    /\ IF ~IsAdmin(s) THEN Forbidden("patch-teacher")
       ELSE /\ teachers' = updateTeacher(teachers, id, body)
            /\ last' = IF id \in DOMAIN teachers
                       THEN Reply("patch-teacher", 200, teachers'[id])
                       ELSE Reply("patch-teacher", 404, [message |-> "Teacher not found"])
            /\ UNCHANGED <<timeEntries, appSettings, session, now,
                           nextTeacherId, nextEntryId>>

\* variant: the time entries of the teacher are deleted too
DeleteTeacher_Cascade(s, id) ==
    /\ Idle
    /\ UNCHANGED inflight
    /\ IF ~IsAdmin(s) THEN Forbidden("delete-teacher")
       ELSE /\ teachers' = deleteTeacher(id)
            /\ timeEntries' = SelectSeq(timeEntries, LAMBDA e : e.teacherId # id)
            /\ last' = IF id \in DOMAIN teachers
                       THEN Reply("delete-teacher", 200, [message |-> "Teacher deleted successfully"])
                       ELSE Reply("delete-teacher", 404, [message |-> "Teacher not found"])
            /\ UNCHANGED <<appSettings, session, now, nextTeacherId, nextEntryId>>

\* DELETE /api/teachers/:id
DeleteTeacher(s, id) ==
    /\ Idle
    /\ UNCHANGED inflight
    /\ IF ~IsAdmin(s) THEN Forbidden("delete-teacher")
       ELSE /\ teachers' = deleteTeacher(id)
            /\ last' = IF id \in DOMAIN teachers
                       THEN Reply("delete-teacher", 200, [message |-> "Teacher deleted successfully"])
                       ELSE Reply("delete-teacher", 404, [message |-> "Teacher not found"])
            /\ UNCHANGED <<timeEntries, appSettings, session, now,
                           nextTeacherId, nextEntryId>>

(***************************************************************************)
(* Check-in and check-out                                                  *)
(***************************************************************************)
\* variant: the already-checked-in test is missing
AlreadyCheckedIn_Never(teacher) == FALSE

\* if (teacher.isCheckedIn)
AlreadyCheckedIn(teacher) == teacher.isCheckedIn

\* POST /api/teachers/:id/checkin
CheckIn(id) ==
    /\ Idle
    /\ UNCHANGED inflight
    /\ LET teacher == getTeacher(id) IN
       IF teacher = None
       THEN /\ last' = Reply("checkin", 404, [message |-> "Teacher not found"])
            /\ UNCHANGED <<teachers, timeEntries, appSettings, session, now,
                           nextTeacherId, nextEntryId>>
       ELSE IF AlreadyCheckedIn(teacher[1])
       THEN /\ last' = Reply("checkin", 400, [message |-> "Teacher already checked in"])
            /\ UNCHANGED <<teachers, timeEntries, appSettings, session, now,
                           nextTeacherId, nextEntryId>>
       ELSE /\ nextEntryId <= MaxEntries
            /\ teachers' = updateTeacher(teachers, id,
                               [isCheckedIn |-> TRUE, currentCheckInTime |-> Some(now)])
            /\ timeEntries' = createTimeEntry([teacherId |-> id,
                                               date |-> IsoDate(now),
                                               checkInTime |-> now,
                                               checkOutTime |-> None])
            /\ nextEntryId' = nextEntryId + 1
            /\ last' = Reply("checkin", 200, teachers'[id])
            /\ UNCHANGED <<appSettings, session, now, nextTeacherId>>

\* new Date(value).getTime(); new Date(null) is the Unix epoch
NewDateTime(value) == IF value = None THEN GetTime(UnixEpoch) ELSE GetTime(value[1])

\* the derived fields of a check-out at instant t
HoursWorked(teacher, t) ==
    Num((GetTime(t) - NewDateTime(teacher.currentCheckInTime)) \div MsPerHour)

\* variant: the cap is not applied
BillableHours_NoCap(teacher, t) == HoursWorked(teacher, t)

BillableHours(teacher, t) ==
    MathMin(HoursWorked(teacher, t), ParseFloat(teacher.maxBillableHours))

Pay(teacher, t) == Times(BillableHours(teacher, t), ParseFloat(teacher.hourlyRate))

\* variant: a completed entry of today is found too
TodayEntry_AnyToday(id, today) ==
    LET open == SelectSeq(getTimeEntriesByTeacher(id), LAMBDA e : e.date = today)
    IN  IF open = <<>> THEN None ELSE Some(open[1])

\* timeEntries.find(entry => entry.date === today && !entry.checkOutTime)
TodayEntry(id, today) ==
    LET open == SelectSeq(getTimeEntriesByTeacher(id),
                          LAMBDA e : e.date = today /\ e.checkOutTime = None)
    IN  IF open = <<>> THEN None ELSE Some(open[1])

\* variant: only the flag is tested
NotCheckedIn_FlagOnly(teacher) == ~teacher.isCheckedIn

\* if (!teacher.isCheckedIn || !teacher.currentCheckInTime)
NotCheckedIn(teacher) == ~teacher.isCheckedIn \/ teacher.currentCheckInTime = None

\* POST /api/teachers/:id/checkout
CheckOut(id) ==
    /\ Idle
    /\ UNCHANGED inflight
    /\ LET teacher == getTeacher(id) IN
       IF teacher = None
       THEN /\ last' = Reply("checkout", 404, [message |-> "Teacher not found"])
            /\ UNCHANGED <<teachers, timeEntries, appSettings, session, now,
                           nextTeacherId, nextEntryId>>
       ELSE IF NotCheckedIn(teacher[1])
       THEN /\ last' = Reply("checkout", 400, [message |-> "Teacher not checked in"])
            /\ UNCHANGED <<teachers, timeEntries, appSettings, session, now,
                           nextTeacherId, nextEntryId>>
       ELSE LET todayEntry == TodayEntry(id, IsoDate(now)) IN
            /\ teachers' = updateTeacher(teachers, id,
                               [isCheckedIn |-> FALSE, currentCheckInTime |-> None])
            /\ timeEntries' =
                   IF todayEntry = None THEN timeEntries
                   ELSE updateTimeEntry(todayEntry[1].id,
                           [checkOutTime |-> Some(now),
                            hoursWorked |-> Some(NumToString(HoursWorked(teacher[1], now))),
                            billableHours |-> Some(NumToString(BillableHours(teacher[1], now))),
                            pay |-> Some(NumToString(Pay(teacher[1], now)))])
            /\ last' = Reply("checkout", 200, teachers'[id])
            /\ UNCHANGED <<appSettings, session, now, nextTeacherId, nextEntryId>>

(***************************************************************************)
(* Export                                                                  *)
(***************************************************************************)
\* teachers.find(t => t.id === entry.teacherId), in insertion order
FindTeacher(teacherId) ==
    LET ks == {k \in DOMAIN teachers : teachers[k].id = teacherId}
    IN  IF ks = {} THEN None
        ELSE Some(teachers[CHOOSE k \in ks : \A j \in ks : k <= j])

ExportRow(entry) ==
    LET teacher == FindTeacher(entry.teacherId) IN
    [teacherName   |-> IF teacher = None \/ teacher[1].name = "" THEN "Unknown"
                       ELSE teacher[1].name,
     date          |-> entry.date,
     checkInTime   |-> entry.checkInTime,
     checkOutTime  |-> entry.checkOutTime,
     hoursWorked   |-> entry.hoursWorked,
     billableHours |-> entry.billableHours,
     hourlyRate    |-> IF teacher = None \/ teacher[1].hourlyRate = <<>> THEN Str(0)
                       ELSE teacher[1].hourlyRate,
     pay           |-> entry.pay]

\* Array.prototype.sort with (a, b) => time(b.date) - time(a.date): a row
\* stays before a later row unless the comparator is positive (stable, by date
\* descending)
RECURSIVE InsertByDate(_, _)
InsertByDate(row, sorted) ==
    IF sorted = <<>> THEN <<row>>
    ELSE IF GetTime(HoursPerDay * Head(sorted).date) - GetTime(HoursPerDay * row.date) <= 0
         THEN <<row>> \o sorted
         ELSE <<Head(sorted)>> \o InsertByDate(row, Tail(sorted))

RECURSIVE SortByDateDesc(_)
SortByDateDesc(rows) ==
    IF rows = <<>> THEN <<>>
    ELSE InsertByDate(Head(rows), SortByDateDesc(Tail(rows)))

RECURSIVE MapRows(_)
MapRows(es) ==
    IF es = <<>> THEN <<>> ELSE <<ExportRow(Head(es))>> \o MapRows(Tail(es))

ExportData ==
    SortByDateDesc(MapRows(SelectSeq(timeEntries, LAMBDA e : e.checkOutTime # None)))

\* GET /api/export/timesheet?month=&year=
ExportTimesheet(s, query) ==
    /\ Idle
    /\ UNCHANGED inflight
    /\ IF ~IsAdmin(s) THEN Forbidden("export")
       ELSE /\ last' = Reply("export", 200, [rows |-> ExportData])
            /\ UNCHANGED <<teachers, timeEntries, appSettings, session, now,
                           nextTeacherId, nextEntryId>>

(***************************************************************************)
(* Specification                                                           *)
(***************************************************************************)
\* the response has been sent; the next request can be taken
EndRequest ==
    /\ ~Idle
    /\ UNCHANGED inflight
    /\ last' = NoReply
    /\ UNCHANGED <<teachers, timeEntries, appSettings, session, now,
                   nextTeacherId, nextEntryId>>

\* requests are processed one at a time
Next ==
    \/ \E d \in TickSteps : Tick(d)
    \/ GetPinSetup
    \/ \E pin \in Pins : SetupPin(pin)
    \/ \E s \in Sessions, pin \in Pins : ValidatePin(s, pin)
    \/ \E s \in Sessions : CheckAdmin(s)
    \/ \E s \in Sessions : Logout(s)
    \/ \E s \in Sessions : Reset(s)
    \/ \E s \in Sessions, body \in CreateBodies : CreateTeacher(s, body)
    \/ \E s \in Sessions, id \in TeacherIds, body \in PatchBodies : PatchTeacher(s, id, body)
    \/ \E s \in Sessions, id \in TeacherIds : DeleteTeacher(s, id)
    \/ \E id \in TeacherIds : CheckIn(id)
    \/ \E id \in TeacherIds : CheckOut(id)
    \/ \E s \in Sessions, query \in Queries : ExportTimesheet(s, query)
    \/ EndRequest

Spec == Init /\ [][Next]_vars

(***************************************************************************)
(* The same server with two clients, each with its own session             *)
(***************************************************************************)
TwoSessions == {"A", "B"}

InitTwoSessions ==
    /\ teachers = <<>>
    /\ timeEntries = <<>>
    /\ appSettings = None
    /\ session = [s \in TwoSessions |-> FALSE]
    /\ now = 0
    /\ nextTeacherId = 1
    /\ nextEntryId = 1
    /\ last = NoReply
    /\ inflight = NoneInFlight

NextTwoSessions ==
    \/ \E d \in TickSteps : Tick(d)
    \/ GetPinSetup
    \/ \E pin \in Pins : SetupPin(pin)
    \/ \E s \in TwoSessions, pin \in Pins : ValidatePin(s, pin)
    \/ \E s \in TwoSessions : CheckAdmin(s)
    \/ \E s \in TwoSessions : Logout(s)
    \/ \E s \in TwoSessions : Reset(s)
    \/ \E s \in TwoSessions, body \in CreateBodies : CreateTeacher(s, body)
    \/ \E s \in TwoSessions, id \in TeacherIds, body \in PatchBodies : PatchTeacher(s, id, body)
    \/ \E s \in TwoSessions, id \in TeacherIds : DeleteTeacher(s, id)
    \/ \E id \in TeacherIds : CheckIn(id)
    \/ \E id \in TeacherIds : CheckOut(id)
    \/ \E s \in TwoSessions, query \in Queries : ExportTimesheet(s, query)
    \/ EndRequest

SpecTwoSessions == InitTwoSessions /\ [][NextTwoSessions]_vars

(***************************************************************************)
(* The same server with an admin client that sends bodies the forms of the *)
(* user interface do not                                                   *)
(***************************************************************************)
NextAnyBody ==
    \/ \E d \in TickSteps : Tick(d)
    \/ GetPinSetup
    \/ \E pin \in Pins : SetupPin(pin)
    \/ \E s \in Sessions, pin \in Pins : ValidatePin(s, pin)
    \/ \E s \in Sessions : CheckAdmin(s)
    \/ \E s \in Sessions : Logout(s)
    \/ \E s \in Sessions : Reset(s)
    \/ \E s \in Sessions, body \in CreateBodies \cup InvalidCreateBodies :
            CreateTeacher(s, body)
    \/ \E s \in Sessions, id \in TeacherIds, body \in AnyPatchBodies :
            PatchTeacher(s, id, body)
    \/ \E s \in Sessions, id \in TeacherIds : DeleteTeacher(s, id)
    \/ \E id \in TeacherIds : CheckIn(id)
    \/ \E id \in TeacherIds : CheckOut(id)
    \/ \E s \in Sessions, query \in Queries : ExportTimesheet(s, query)
    \/ EndRequest

SpecAnyBody == Init /\ [][NextAnyBody]_vars

(***************************************************************************)
(* The same server some time after start: a PIN is configured and a        *)
(* teacher, created under id 0, is stored; nobody is logged in             *)
(***************************************************************************)
InitWithTeacher ==
    /\ teachers = (0 :> [id |-> 0,
                         name |-> "Bea",
                         hourlyRate |-> Str(20),
                         maxBillableHours |-> Str(8),
                         isCheckedIn |-> FALSE,
                         currentCheckInTime |-> None])
    /\ timeEntries = <<>>
    /\ appSettings = createAppSettings(BcryptHash("1234"))
    /\ session = [s \in Sessions |-> FALSE]
    /\ now = 0
    /\ nextTeacherId = 1
    /\ nextEntryId = 1
    /\ last = NoReply
    /\ inflight = NoneInFlight

SpecWithTeacher == InitWithTeacher /\ [][Next]_vars

(***************************************************************************)
(* Overlapping requests.  A handler runs from one await to the next        *)
(* without interruption; at an await another request's handler may run.    *)
(* A storage call reads or writes the store when it is called, so the      *)
(* steps of a handler are: the call made on arrival, then one step per     *)
(* continuation.                                                           *)
(***************************************************************************)
FreeSlot ==
    CHOOSE r \in Slots :
        inflight[r] = Free /\ \A q \in Slots : inflight[q] = Free => r <= q

Accept(request) ==
    /\ \E r \in Slots : inflight[r] = Free
    /\ inflight' = [inflight EXCEPT ![FreeSlot] = request]

Request(op) == [Free EXCEPT !.op = op]

\* res.status(status).json(body)
Done(request, status, body) ==
    [request EXCEPT !.pc = "done", !.reply = Reply(request.op, status, body)]

At(r, op, pc) == inflight[r].op = op /\ inflight[r].pc = pc

\* res.json(undefined)
NoBody == [message |-> ""]

\* POST /api/settings/setup-pin, up to await bcrypt.hash
SetupPinStart(pin) ==
    /\ Idle
    /\ Accept(LET request == [Request("setup-pin") EXCEPT !.pin = pin] IN
              IF ~PinSchemaOk(pin)
              THEN Done(request, 400, [message |-> "Invalid PIN format"])
              ELSE IF PinAlreadySetUp(appSettings)
              THEN Done(request, 400, [message |-> "PIN already set up"])
              ELSE [request EXCEPT !.pc = "hash"])
    /\ UNCHANGED <<teachers, timeEntries, appSettings, session, now,
                   nextTeacherId, nextEntryId, last>>

\* POST /api/settings/setup-pin, from the hash to the response
SetupPinHashed(r) ==
    /\ Idle
    /\ At(r, "setup-pin", "hash")
    /\ appSettings' = createAppSettings(BcryptHash(inflight[r].pin))
    /\ inflight' = [inflight EXCEPT
                       ![r] = Done(@, 200, [message |-> "PIN set up successfully"])]
    /\ UNCHANGED <<teachers, timeEntries, session, now,
                   nextTeacherId, nextEntryId, last>>

\* POST /api/teachers/:id/checkin, up to await storage.getTeacher
CheckInStart(id) ==
    /\ Idle
    /\ Accept([Request("checkin") EXCEPT !.id = id, !.pc = "teacher",
                                         !.read = getTeacher(id)])
    /\ UNCHANGED <<teachers, timeEntries, appSettings, session, now,
                   nextTeacherId, nextEntryId, last>>

\* variant: the teacher is read again before the write
CheckInUpdate_ReadsAgain(r) ==
    /\ Idle
    /\ At(r, "checkin", "teacher")
    /\ LET id == inflight[r].id
           teacher == getTeacher(id) IN
       IF teacher = None
       THEN /\ inflight' = [inflight EXCEPT
                               ![r] = Done(@, 404, [message |-> "Teacher not found"])]
            /\ UNCHANGED teachers
       ELSE IF AlreadyCheckedIn(teacher[1])
       THEN /\ inflight' = [inflight EXCEPT
                               ![r] = Done(@, 400, [message |-> "Teacher already checked in"])]
            /\ UNCHANGED teachers
       ELSE /\ teachers' = updateTeacher(teachers, id,
                               [isCheckedIn |-> TRUE, currentCheckInTime |-> Some(now)])
            /\ inflight' = [inflight EXCEPT
                               ![r] = [@ EXCEPT !.pc = "entry",
                                                !.at = Some(now),
                                                !.teacher = Some(teachers'[id])]]
    /\ UNCHANGED <<timeEntries, appSettings, session, now,
                   nextTeacherId, nextEntryId, last>>

\* POST /api/teachers/:id/checkin, from the teacher read to
\* await storage.updateTeacher
CheckInUpdate(r) ==
    /\ Idle
    /\ At(r, "checkin", "teacher")
    /\ LET id == inflight[r].id
           teacher == inflight[r].read IN
       IF teacher = None
       THEN /\ inflight' = [inflight EXCEPT
                               ![r] = Done(@, 404, [message |-> "Teacher not found"])]
            /\ UNCHANGED teachers
       ELSE IF AlreadyCheckedIn(teacher[1])
       THEN /\ inflight' = [inflight EXCEPT
                               ![r] = Done(@, 400, [message |-> "Teacher already checked in"])]
            /\ UNCHANGED teachers
       ELSE /\ teachers' = updateTeacher(teachers, id,
                               [isCheckedIn |-> TRUE, currentCheckInTime |-> Some(now)])
            /\ inflight' = [inflight EXCEPT
                               ![r] = [@ EXCEPT !.pc = "entry",
                                                !.at = Some(now),
                                                !.teacher = IF id \in DOMAIN teachers
                                                            THEN Some(teachers'[id])
                                                            ELSE None]]
    /\ UNCHANGED <<timeEntries, appSettings, session, now,
                   nextTeacherId, nextEntryId, last>>

\* variant: a failed entry write undoes the teacher update
CheckInCreate_RollsBack(r, ok) ==
    /\ Idle
    /\ At(r, "checkin", "entry")
    /\ IF ok
       THEN /\ nextEntryId <= MaxEntries
            /\ timeEntries' = createTimeEntry([teacherId |-> inflight[r].id,
                                               date |-> IsoDate(inflight[r].at[1]),
                                               checkInTime |-> inflight[r].at[1],
                                               checkOutTime |-> None])
            /\ nextEntryId' = nextEntryId + 1
            /\ inflight' = [inflight EXCEPT
                               ![r] = Done(@, 200, IF @.teacher = None THEN NoBody
                                                   ELSE @.teacher[1])]
            /\ UNCHANGED teachers
       ELSE /\ inflight' = [inflight EXCEPT
                               ![r] = Done(@, 500, [message |-> "Failed to check in"])]
            /\ teachers' = updateTeacher(teachers, inflight[r].id,
                               [isCheckedIn |-> FALSE, currentCheckInTime |-> None])
            /\ UNCHANGED <<timeEntries, nextEntryId>>
    /\ UNCHANGED <<appSettings, session, now, nextTeacherId, last>>

\* POST /api/teachers/:id/checkin, from the teacher update to the response;
\* ok is whether storage.createTimeEntry returns or throws
CheckInCreate(r, ok) ==
    /\ Idle
    /\ At(r, "checkin", "entry")
    /\ IF ok
       THEN /\ nextEntryId <= MaxEntries
            /\ timeEntries' = createTimeEntry([teacherId |-> inflight[r].id,
                                               date |-> IsoDate(inflight[r].at[1]),
                                               checkInTime |-> inflight[r].at[1],
                                               checkOutTime |-> None])
            /\ nextEntryId' = nextEntryId + 1
            /\ inflight' = [inflight EXCEPT
                               ![r] = Done(@, 200, IF @.teacher = None THEN NoBody
                                                   ELSE @.teacher[1])]
       ELSE /\ inflight' = [inflight EXCEPT
                               ![r] = Done(@, 500, [message |-> "Failed to check in"])]
            /\ UNCHANGED <<timeEntries, nextEntryId>>
    /\ UNCHANGED <<teachers, appSettings, session, now, nextTeacherId, last>>

\* POST /api/teachers/:id/checkout, up to await storage.getTeacher
CheckOutStart(id) ==
    /\ Idle
    /\ Accept([Request("checkout") EXCEPT !.id = id, !.pc = "teacher",
                                          !.read = getTeacher(id)])
    /\ UNCHANGED <<teachers, timeEntries, appSettings, session, now,
                   nextTeacherId, nextEntryId, last>>

\* POST /api/teachers/:id/checkout, from the teacher read to
\* await storage.updateTeacher
CheckOutUpdate(r) ==
    /\ Idle
    /\ At(r, "checkout", "teacher")
    /\ LET id == inflight[r].id
           teacher == inflight[r].read IN
       IF teacher = None
       THEN /\ inflight' = [inflight EXCEPT
                               ![r] = Done(@, 404, [message |-> "Teacher not found"])]
            /\ UNCHANGED teachers
       ELSE IF NotCheckedIn(teacher[1])
       THEN /\ inflight' = [inflight EXCEPT
                               ![r] = Done(@, 400, [message |-> "Teacher not checked in"])]
            /\ UNCHANGED teachers
       ELSE /\ teachers' = updateTeacher(teachers, id,
                               [isCheckedIn |-> FALSE, currentCheckInTime |-> None])
            /\ inflight' = [inflight EXCEPT
                   ![r] = [@ EXCEPT
                       !.pc = "entries",
                       !.at = Some(now),
                       !.updates = Some(
                           [checkOutTime |-> Some(now),
                            hoursWorked |-> Some(NumToString(HoursWorked(teacher[1], now))),
                            billableHours |-> Some(NumToString(BillableHours(teacher[1], now))),
                            pay |-> Some(NumToString(Pay(teacher[1], now)))]),
                       !.teacher = IF id \in DOMAIN teachers THEN Some(teachers'[id])
                                   ELSE None]]
    /\ UNCHANGED <<timeEntries, appSettings, session, now,
                   nextTeacherId, nextEntryId, last>>

\* POST /api/teachers/:id/checkout, from the teacher update to
\* await storage.getTimeEntriesByTeacher; the entry that find will return
\* is determined by the list read here
CheckOutFind(r) ==
    /\ Idle
    /\ At(r, "checkout", "entries")
    /\ LET todayEntry == TodayEntry(inflight[r].id, IsoDate(inflight[r].at[1])) IN
       inflight' = [inflight EXCEPT
                       ![r] = [@ EXCEPT !.pc = "entry",
                                        !.entry = IF todayEntry = None THEN None
                                                  ELSE Some(todayEntry[1].id)]]
    /\ UNCHANGED <<teachers, timeEntries, appSettings, session, now,
                   nextTeacherId, nextEntryId, last>>

\* POST /api/teachers/:id/checkout, from the entry list to the response; ok is
\* whether storage.updateTimeEntry returns or throws
CheckOutFinish(r, ok) ==
    /\ Idle
    /\ At(r, "checkout", "entry")
    /\ IF inflight[r].entry # None /\ ~ok
       THEN /\ inflight' = [inflight EXCEPT
                               ![r] = Done(@, 500, [message |-> "Failed to check out"])]
            /\ UNCHANGED timeEntries
       ELSE /\ ok
            /\ timeEntries' = IF inflight[r].entry = None THEN timeEntries
                              ELSE updateTimeEntry(inflight[r].entry[1],
                                                   inflight[r].updates[1])
            /\ inflight' = [inflight EXCEPT
                               ![r] = Done(@, 200, IF @.teacher = None THEN NoBody
                                                   ELSE @.teacher[1])]
    /\ UNCHANGED <<teachers, appSettings, session, now,
                   nextTeacherId, nextEntryId, last>>

\* the response has been sent
Respond(r) ==
    /\ Idle
    /\ inflight[r].pc = "done"
    /\ inflight' = [inflight EXCEPT ![r] = Free]
    /\ UNCHANGED <<teachers, timeEntries, appSettings, session, now,
                   nextTeacherId, nextEntryId, last>>

NextInFlight ==
    \/ \E d \in TickSteps : Tick(d)
    \/ \E s \in Sessions : Reset(s)
    \/ EndRequest
    \/ \E pin \in Pins : SetupPinStart(pin)
    \/ \E r \in Slots : SetupPinHashed(r)
    \/ \E id \in TeacherIds : CheckInStart(id)
    \/ \E r \in Slots : CheckInUpdate(r)
    \/ \E r \in Slots, ok \in BOOLEAN : CheckInCreate(r, ok)
    \/ \E id \in TeacherIds : CheckOutStart(id)
    \/ \E r \in Slots : CheckOutUpdate(r)
    \/ \E r \in Slots : CheckOutFind(r)
    \/ \E r \in Slots, ok \in BOOLEAN : CheckOutFinish(r, ok)
    \/ \E r \in Slots : Respond(r)

SpecInFlight == InitWithTeacher /\ [][NextInFlight]_vars

(***************************************************************************)
(* Properties                                                              *)
(***************************************************************************)
OpenEntries(id) ==
    SelectSeq(getTimeEntriesByTeacher(id), LAMBDA e : e.checkOutTime = None)

IsNum(str, n) == ParseFloat(str) = Num(n)

\* C1: every stored teacher has isCheckedIn = true iff currentCheckInTime is
\* non-null, in every reachable state, admin PATCH included.
C1_CheckedInIffTime ==
    \A k \in DOMAIN teachers :
        teachers[k].isCheckedIn <=> (teachers[k].currentCheckInTime # None)

\* C2: each teacher has at most one TimeEntry whose checkOutTime is null, in
\* every state reached by sequentially processed requests.
C2_AtMostOneOpenEntry ==
    \A id \in TeacherIds : Len(OpenEntries(id)) <= 1

\* C3: after the check-out that follows a teacher's only check-in, the teacher
\* has exactly one TimeEntry, it is completed, and hoursWorked is
\* checkOutTime - checkInTime in hours, whatever time elapsed in between.
C3_RoundTripCompletes ==
    (last.op = "checkout" /\ last.status = 200) =>
        LET es == getTimeEntriesByTeacher(last.body.id) IN
        Len(es) = 1 =>
            /\ es[1].checkOutTime # None
            /\ IsNum(es[1].hoursWorked[1],
                     (GetTime(es[1].checkOutTime[1]) - GetTime(es[1].checkInTime))
                        \div MsPerHour)

\* C4: whenever a check-out finalizes a TimeEntry, billableHours is
\* min(hoursWorked, maxBillableHours) and pay is billableHours * hourlyRate with
\* the teacher's values at that moment; rate 20, cap 8, 10 hours elapsed give
\* hoursWorked 10, billableHours 8, pay 160.
C4_Finalized(i) ==
    /\ i \in DOMAIN timeEntries'
    /\ timeEntries[i].checkOutTime = None
    /\ timeEntries'[i].checkOutTime # None

C4_Example ==
    LET t == [hourlyRate |-> Str(20), maxBillableHours |-> Str(8),
              currentCheckInTime |-> Some(2)]
    IN  /\ HoursWorked(t, 12) = Num(10)
        /\ BillableHours(t, 12) = Num(8)
        /\ Pay(t, 12) = Num(160)

C4_PayFormula ==
    [][ /\ C4_Example
        /\ \A i \in DOMAIN timeEntries :
            C4_Finalized(i) =>
                LET e == timeEntries'[i]
                    t == teachers[e.teacherId]
                    hours    == ParseFloat(e.hoursWorked[1])
                    billable == ParseFloat(e.billableHours[1])
                IN  /\ billable = MathMin(hours, ParseFloat(t.maxBillableHours))
                    /\ ParseFloat(e.pay[1]) = Times(billable, ParseFloat(t.hourlyRate)) ]_vars

C4_Witness ==
    \E i \in DOMAIN timeEntries :
        /\ timeEntries[i].checkOutTime # None
        /\ timeEntries[i].hoursWorked = Some(Str(12))
        /\ timeEntries[i].billableHours = Some(Str(8))
        /\ timeEntries[i].pay = Some(Str(160))

\* C5: a check-in for a teacher who is already checked in is answered 400, one
\* for an unknown id 404, and neither changes teachers, time entries, settings
\* or sessions.
C5_CheckInRejected ==
    [][ /\ \A id \in TeacherIds :
            (/\ last'.op = "checkin"
             /\ id \in DOMAIN teachers
             /\ teachers[id].isCheckedIn
             /\ CheckIn(id))
                => (last'.status = 400 /\ UNCHANGED <<store, session>>)
        /\ \A id \in TeacherIds :
            (last'.op = "checkin" /\ id \notin DOMAIN teachers /\ CheckIn(id))
                => (last'.status = 404 /\ UNCHANGED <<store, session>>)
        /\ (last'.op = "checkin" /\ last'.status # 200)
                => UNCHANGED <<store, session>> ]_vars

C5_Witness ==
    /\ last.op = "checkin"
    /\ last.status = 400
    /\ \E k \in DOMAIN teachers : teachers[k].isCheckedIn
    /\ timeEntries # <<>>

\* C6: a check-out for a teacher who is not checked in (isCheckedIn false or
\* currentCheckInTime null) is answered 400, one for an unknown id 404, and
\* neither changes the teacher records or the time entries.
C6_CheckOutRejected ==
    [][ /\ \A id \in TeacherIds :
            (/\ last'.op = "checkout"
             /\ id \in DOMAIN teachers
             /\ (~teachers[id].isCheckedIn \/ teachers[id].currentCheckInTime = None)
             /\ CheckOut(id))
                => (last'.status = 400 /\ UNCHANGED <<store, session>>)
        /\ \A id \in TeacherIds :
            (last'.op = "checkout" /\ id \notin DOMAIN teachers /\ CheckOut(id))
                => (last'.status = 404 /\ UNCHANGED <<store, session>>)
        /\ (last'.op = "checkout" /\ last'.status # 200)
                => UNCHANGED <<store, session>> ]_vars

C6_Witness ==
    /\ last.op = "checkout"
    /\ last.status = 400
    /\ \E k \in DOMAIN teachers : ~teachers[k].isCheckedIn
    /\ timeEntries # <<>>

\* C7: create, update and delete of teachers and the export succeed only for a
\* session whose admin flag is true at that request; a request from a session
\* without the flag is answered 403 and leaves teachers, time entries and
\* settings unchanged, whatever its body or target id.
GatedOps == {"create-teacher", "patch-teacher", "delete-teacher", "export"}

C7_GatedRequest(s) ==
    \/ \E body \in CreateBodies : CreateTeacher(s, body)
    \/ \E id \in TeacherIds, body \in PatchBodies : PatchTeacher(s, id, body)
    \/ \E id \in TeacherIds : DeleteTeacher(s, id)
    \/ \E query \in Queries : ExportTimesheet(s, query)

C7_AdminGate ==
    [][ /\ \A s \in Sessions :
            (last'.op \in GatedOps /\ ~session[s] /\ C7_GatedRequest(s))
                => (last'.status = 403 /\ UNCHANGED <<store, session>>)
        /\ (last'.op \in GatedOps /\ last'.status \in {200, 201})
                => \E s \in Sessions : session[s]
        /\ (last'.op \in GatedOps /\ last'.status = 403)
                => UNCHANGED <<store, session>> ]_vars

C7_Witness ==
    /\ last.op \in GatedOps
    /\ last.status = 403
    /\ teachers # <<>>
    /\ \E s \in Sessions : ~session[s]

\* C8: with a PIN configured, a further setup-pin request is answered 400, the
\* stored hash is unchanged, and the first PIN still validates afterwards.
C8_SecondSetupRejected ==
    [][ /\ \A pin \in Pins :
            (last'.op = "setup-pin" /\ appSettings # None /\ SetupPin(pin))
                => /\ last'.status = 400
                   /\ appSettings' = appSettings
                   /\ \A p \in Pins :
                        validatePin(appSettings, p) => validatePin(appSettings', p)
        /\ (last'.op = "setup-pin" /\ last' # last /\ appSettings # None)
                => (last'.status = 400 /\ appSettings' = appSettings)
        /\ \A s \in Sessions, p \in Pins :
            (/\ last'.op = "validate-pin"
             /\ PinSchemaOk(p)
             /\ appSettings = Some([pinHash |-> BcryptHash(p)])
             /\ ValidatePin(s, p))
                => (last'.status = 200 /\ session'[s]) ]_vars

C8_Witness ==
    /\ last = Reply("setup-pin", 400, [message |-> "PIN already set up"])
    /\ \E p \in Pins : validatePin(appSettings, p)

\* C9: after a reset, from any prior state, the teacher list and the
\* time-entry list are empty and there are no settings; pin-setup reports
\* hasPin = false and validatePin is false for every PIN until a setup-pin
\* succeeds.
C9_ResetClearsAll ==
    [][ /\ (last'.op = "reset" \/ \E s \in Sessions : Reset(s))
                => (teachers' = <<>> /\ timeEntries' = <<>> /\ appSettings' = None)
        /\ appSettings' = None
                => \A p \in Pins : ~validatePin(appSettings', p)
        /\ (last'.op = "pin-setup" /\ appSettings = None /\ GetPinSetup)
                => last'.body = [hasPin |-> FALSE]
        /\ \A s \in Sessions, p \in Pins :
            (last'.op = "validate-pin" /\ appSettings = None /\ ValidatePin(s, p))
                => (last'.status \in {400, 401} /\ UNCHANGED session)
        /\ (appSettings = None /\ appSettings' # None)
                => (last'.op = "setup-pin" /\ last'.status = 200) ]_vars

C9_Witness ==
    /\ last.op = "reset"
    /\ nextTeacherId > 1
    /\ nextEntryId > 1
    /\ teachers = <<>>
    /\ timeEntries = <<>>
    /\ appSettings = None

\* C10: an export requested with a month and/or year returns only rows whose
\* date falls in that month and/or year, ordered by date descending.
RowsInPeriod(rows, query) ==
    \A i \in DOMAIN rows :
        /\ query.month # None => MonthOf(rows[i].date) = query.month[1]
        /\ query.year # None => YearOf(rows[i].date) = query.year[1]

SortedByDateDesc(rows) ==
    \A i, j \in DOMAIN rows : i < j => rows[i].date >= rows[j].date

C10_ExportFiltered ==
    [][ \A s \in Sessions, query \in Queries :
            (last'.op = "export" /\ session[s] /\ ExportTimesheet(s, query))
                => /\ RowsInPeriod(last'.body.rows, query)
                   /\ SortedByDateDesc(last'.body.rows) ]_vars

\* C11: an entry whose checkOutTime is null has null hoursWorked, billableHours
\* and pay; and once a check-out has set them, no request other than a reset
\* (check-in, check-out, PATCH of the rate or cap, teacher deletion) changes the
\* entry's checkInTime, checkOutTime, hoursWorked, billableHours or pay.
C11_Frozen(e, f) ==
    /\ f.checkInTime = e.checkInTime
    /\ f.checkOutTime = e.checkOutTime
    /\ f.hoursWorked = e.hoursWorked
    /\ f.billableHours = e.billableHours
    /\ f.pay = e.pay

C11_CompletedEntryImmutable ==
    [][ /\ \A j \in DOMAIN timeEntries' :
            timeEntries'[j].checkOutTime = None
                => /\ timeEntries'[j].hoursWorked = None
                   /\ timeEntries'[j].billableHours = None
                   /\ timeEntries'[j].pay = None
        /\ last'.op # "reset"
                => \A i \in DOMAIN timeEntries :
                      timeEntries[i].checkOutTime # None
                          => \E j \in DOMAIN timeEntries' :
                                /\ timeEntries'[j].id = timeEntries[i].id
                                /\ C11_Frozen(timeEntries[i], timeEntries'[j]) ]_vars

\* a completed entry priced at rate 20 and cap 8 whose teacher has since been
\* given rate 30 and cap 16 and has checked in again
C11_Witness ==
    /\ Len(timeEntries) = 2
    /\ timeEntries[1].checkOutTime # None
    /\ timeEntries[1].hoursWorked = Some(Str(12))
    /\ timeEntries[1].pay = Some(Str(160))
    /\ timeEntries[2].checkOutTime = None
    /\ \E k \in DOMAIN teachers :
          /\ k = timeEntries[1].teacherId
          /\ teachers[k].hourlyRate = Str(30)

\* C12: a reset request succeeds from any session, with or without the admin
\* flag and with or without a configured PIN; it clears teachers, time entries
\* and settings and sets the requesting session's admin flag to false.
C12_ResetUnauthenticated ==
    [][ /\ Idle => \A s \in DOMAIN session : ENABLED Reset(s)
        /\ \A s \in DOMAIN session :
            (last'.op = "reset" /\ Reset(s))
                => /\ last' = Reply("reset", 200, [message |-> "All data reset successfully"])
                   /\ teachers' = <<>>
                   /\ timeEntries' = <<>>
                   /\ appSettings' = None
                   /\ session'[s] = FALSE
        /\ last'.op = "reset" => last'.status = 200 ]_vars

\* a reset answered 200 in a system where no PIN was ever validated: no teacher
\* was ever created
C12_Witness ==
    /\ last = Reply("reset", 200, [message |-> "All data reset successfully"])
    /\ nextTeacherId = 1
    /\ \A s \in DOMAIN session : ~session[s]

\* C13: for every session, check-admin reports true exactly when the session's
\* most recent successful validate-pin has not been followed by a logout or
\* reset from that session: the flag is raised only by a validate-pin of that
\* session answered 200, lowered only by its own logout or reset, and reported
\* as stored; a validate-pin answered 401 or 400 never changes a flag, and a
\* matching PIN is accepted whatever was attempted before.
C13_Matches(p) == PinSchemaOk(p) /\ validatePin(appSettings, p)

C13_AdminFlagHistory ==
    [][ \A s \in DOMAIN session :
          /\ (~session[s] /\ session'[s])
                => /\ last' = Reply("validate-pin", 200,
                                    [message |-> "PIN validated successfully"])
                   /\ \E p \in Pins : C13_Matches(p) /\ ValidatePin(s, p)
          /\ (session[s] /\ ~session'[s])
                => /\ last'.op \in {"logout", "reset"}
                   /\ (Logout(s) \/ Reset(s))
          /\ \A p \in Pins :
                (last'.op = "validate-pin" /\ ValidatePin(s, p))
                    => IF C13_Matches(p)
                       THEN last'.status = 200 /\ session'[s]
                       ELSE /\ last'.status = IF PinSchemaOk(p) THEN 401 ELSE 400
                            /\ UNCHANGED session
          /\ (last'.op = "validate-pin" /\ last'.status \in {400, 401})
                => UNCHANGED session
          /\ (last'.op \in {"logout", "reset"} /\ (Logout(s) \/ Reset(s)))
                => ~session'[s]
          /\ (last'.op = "check-admin" /\ CheckAdmin(s))
                => last'.body = [isAdmin |-> session[s]]
          /\ Idle => \A p \in Pins : ENABLED ValidatePin(s, p) ]_vars

\* check-admin reports true to a session while the other session, which has
\* not validated a PIN, has no flag
C13_Witness ==
    /\ last = Reply("check-admin", 200, [isAdmin |-> TRUE])
    /\ \E s, t \in DOMAIN session : session[s] /\ ~session[t]

\* C14: admin authorization is per session: a validate-pin, logout or reset
\* request issued from a session never changes the admin flag of a different
\* session.
C14_SessionsIsolated ==
    [][ \A s, t \in DOMAIN session :
          (/\ s # t
           /\ last'.op \in {"validate-pin", "logout", "reset"}
           /\ \/ \E p \in Pins : ValidatePin(s, p)
              \/ Logout(s)
              \/ Reset(s))
              => session'[t] = session[t] ]_vars

\* a session has logged out while the other session keeps its flag
C14_Witness ==
    /\ last.op \in {"logout", "reset"}
    /\ \E s, t \in DOMAIN session : s # t /\ ~session[s] /\ session[t]

\* C15: while no PIN is configured (before the first setup or after a reset),
\* validatePin is false for every candidate PIN, every validate-pin request is
\* rejected and no session acquires the admin flag.
C15_NoPinNoAdmin ==
    [][ appSettings = None
          => /\ \A p \in Pins : ~validatePin(appSettings, p)
             /\ \A s \in DOMAIN session, p \in Pins :
                   (last'.op = "validate-pin" /\ ValidatePin(s, p))
                       => /\ last'.status = IF PinSchemaOk(p) THEN 401 ELSE 400
                          /\ UNCHANGED session
             /\ \A s \in DOMAIN session : session'[s] => session[s] ]_vars

\* a well-formed PIN refused after a reset has removed the settings
C15_Witness ==
    /\ last = Reply("validate-pin", 401, [message |-> "Invalid PIN"])
    /\ appSettings = None
    /\ nextTeacherId > 1

\* C16: at most one AppSettings record exists at any time, and once a PIN is
\* configured its stored hash is not changed by any request other than a reset:
\* there is no PIN-change path, and the stored PIN is replaced only by a reset
\* followed by a new setup.
C16_SingleSettingsNoPinChange ==
    [][ /\ Len(appSettings) <= 1
        /\ Len(appSettings') <= 1
        /\ (appSettings # None /\ appSettings' # appSettings)
                => /\ appSettings' = None
                   /\ last'.op = "reset"
                   /\ \E s \in DOMAIN session : Reset(s)
        /\ (appSettings = None /\ appSettings' # None)
                => /\ last' = Reply("setup-pin", 200, [message |-> "PIN set up successfully"])
                   /\ \E p \in Pins : /\ PinSchemaOk(p)
                                        /\ SetupPin(p)
                                        /\ appSettings' = Some([pinHash |-> BcryptHash(p)]) ]_vars

\* a setup accepted after a reset: a teacher had been created, so a PIN had
\* been configured and validated before
C16_Witness ==
    /\ last = Reply("setup-pin", 200, [message |-> "PIN set up successfully"])
    /\ nextTeacherId > 1
    /\ appSettings # None

\* C17: in every reachable state each TimeEntry's teacherId is the id of a
\* stored teacher: deleting a teacher deletes that teacher's time entries.
C17_EntriesHaveTeacher ==
    \A i \in DOMAIN timeEntries : timeEntries[i].teacherId \in DOMAIN teachers

\* C18: an admin create-teacher request whose name is empty, or whose
\* hourlyRate or maxBillableHours is not a positive decimal (zero, negative or
\* non-numeric), is rejected with 400 and no teacher is created.
C18_PositiveDecimal(str) == ~ParseFloat(str).nan /\ ParseFloat(str).v > 0

C18_ValidBody(body) ==
    /\ InsertTeacherKeys \subseteq DOMAIN body
    /\ body.name # ""
    /\ C18_PositiveDecimal(body.hourlyRate)
    /\ C18_PositiveDecimal(body.maxBillableHours)

C18_InvalidCreateRejected ==
    [][ \A s \in DOMAIN session, body \in CreateBodies \cup InvalidCreateBodies :
          (/\ last'.op = "create-teacher"
           /\ session[s]
           /\ ~C18_ValidBody(body)
           /\ CreateTeacher(s, body))
              => (last'.status = 400 /\ teachers' = teachers) ]_vars

\* C19: a teacher's id is fixed at creation: after any sequence of requests,
\* PATCH with an arbitrary body included, the id field of every stored teacher
\* equals the id it was created and is looked up under.
C19_IdImmutable ==
    \A k \in DOMAIN teachers : teachers[k].id = k

\* C20: a successful check-in of teacher T sets T.isCheckedIn to true and
\* T.currentCheckInTime to the request instant, and adds exactly one TimeEntry
\* with teacherId T, date the calendar date of that instant, checkInTime equal
\* to T.currentCheckInTime, checkOutTime null and derived fields null; no other
\* teacher and no existing time entry is changed.
C20_NewEntry(e, id) ==
    /\ e.teacherId = id
    /\ e.date = IsoDate(now)
    /\ Some(e.checkInTime) = teachers'[id].currentCheckInTime
    /\ e.checkOutTime = None
    /\ e.hoursWorked = None
    /\ e.billableHours = None
    /\ e.pay = None
    /\ \A i \in DOMAIN timeEntries : timeEntries[i].id # e.id

C20_CheckInEffect ==
    [][ \A id \in TeacherIds :
          (last'.op = "checkin" /\ last'.status = 200 /\ CheckIn(id))
              => /\ id \in DOMAIN teachers
                 /\ DOMAIN teachers' = DOMAIN teachers
                 /\ teachers'[id] = [teachers[id] EXCEPT !.isCheckedIn = TRUE,
                                                         !.currentCheckInTime = Some(now)]
                 /\ \A k \in DOMAIN teachers : k # id => teachers'[k] = teachers[k]
                 /\ Len(timeEntries') = Len(timeEntries) + 1
                 /\ \A i \in DOMAIN timeEntries : timeEntries'[i] = timeEntries[i]
                 /\ C20_NewEntry(timeEntries'[Len(timeEntries')], id) ]_vars

\* a check-in answered 200 while another teacher, whose entry is already
\* stored, is checked in
C20_Witness ==
    /\ last.op = "checkin"
    /\ last.status = 200
    /\ Len(timeEntries) = 2
    /\ timeEntries[1].teacherId # timeEntries[2].teacherId
    /\ \A i \in DOMAIN timeEntries :
          /\ timeEntries[i].teacherId \in DOMAIN teachers
          /\ teachers[timeEntries[i].teacherId].isCheckedIn

\* C21: a successful check-out of teacher T sets T.isCheckedIn to false and
\* T.currentCheckInTime to null and modifies at most one TimeEntry, which
\* belongs to T, was open and is dated the check-out's calendar date; when T
\* has no open entry dated that day the check-out still succeeds, the teacher's
\* status is updated and every TimeEntry is left unchanged.
C21_Changed == {i \in DOMAIN timeEntries : timeEntries'[i] # timeEntries[i]}

C21_OpenToday(id) ==
    {i \in DOMAIN timeEntries :
        /\ timeEntries[i].teacherId = id
        /\ timeEntries[i].checkOutTime = None
        /\ timeEntries[i].date = IsoDate(now)}

C21_CheckOutEffect ==
    [][ \A id \in TeacherIds :
          (last'.op = "checkout" /\ last'.status = 200 /\ CheckOut(id))
              => /\ id \in DOMAIN teachers
                 /\ DOMAIN teachers' = DOMAIN teachers
                 /\ teachers'[id] = [teachers[id] EXCEPT !.isCheckedIn = FALSE,
                                                         !.currentCheckInTime = None]
                 /\ \A k \in DOMAIN teachers : k # id => teachers'[k] = teachers[k]
                 /\ last'.body = teachers'[id]
                 /\ DOMAIN timeEntries' = DOMAIN timeEntries
                 /\ Cardinality(C21_Changed) <= 1
                 /\ C21_Changed \subseteq C21_OpenToday(id)
                 /\ C21_OpenToday(id) = {} => timeEntries' = timeEntries ]_vars

\* a check-out answered 200 that found no open entry dated today: the teacher
\* is checked out and the entry of the previous day is still open
C21_Witness ==
    /\ last.op = "checkout"
    /\ last.status = 200
    /\ \E i \in DOMAIN timeEntries :
          /\ timeEntries[i].checkOutTime = None
          /\ timeEntries[i].date # IsoDate(now)
          /\ timeEntries[i].teacherId \in DOMAIN teachers
          /\ ~teachers[timeEntries[i].teacherId].isCheckedIn

C26_Completed == SelectSeq(timeEntries, LAMBDA e : e.checkOutTime # None)

C26_RowOf(row, e) ==
    /\ row.date = e.date
    /\ row.checkInTime = e.checkInTime
    /\ row.checkOutTime = e.checkOutTime
    /\ row.hoursWorked = e.hoursWorked
    /\ row.billableHours = e.billableHours
    /\ row.pay = e.pay
    /\ IF e.teacherId \in DOMAIN teachers
       THEN row.hourlyRate = teachers[e.teacherId].hourlyRate
       ELSE row.teacherName = "Unknown" /\ row.hourlyRate = Str(0)

C26_OneRowPerCompleted(rows) ==
    /\ Len(rows) = Len(C26_Completed)
    /\ \E f \in [DOMAIN rows -> DOMAIN rows] :
          /\ \A i, j \in DOMAIN rows : f[i] = f[j] => i = j
          /\ \A i \in DOMAIN rows : C26_RowOf(rows[i], C26_Completed[f[i]])

C26_ExportRows ==
    [][ \A s \in DOMAIN session, query \in Queries :
          (last'.op = "export" /\ session[s] /\ ExportTimesheet(s, query))
              => /\ last'.status = 200
                 /\ UNCHANGED <<store, session>>
                 /\ C26_OneRowPerCompleted(last'.body.rows) ]_vars

\* C27: in every reachable state every teacher's hourlyRate and
\* maxBillableHours are non-negative and every completed TimeEntry has
\* hoursWorked >= 0, 0 <= billableHours <= hoursWorked and pay >= 0 (the clock
\* never goes backwards), also after admin PATCH requests with unvalidated
\* bodies.
C27_NonNeg(str) == ~ParseFloat(str).nan /\ ParseFloat(str).v >= 0

C27_NonNegativeAmounts ==
    /\ \A k \in DOMAIN teachers :
          /\ C27_NonNeg(teachers[k].hourlyRate)
          /\ C27_NonNeg(teachers[k].maxBillableHours)
    /\ \A i \in DOMAIN timeEntries :
          timeEntries[i].checkOutTime # None
              => /\ C27_NonNeg(timeEntries[i].hoursWorked[1])
                 /\ C27_NonNeg(timeEntries[i].billableHours[1])
                 /\ ParseFloat(timeEntries[i].billableHours[1]).v
                        <= ParseFloat(timeEntries[i].hoursWorked[1]).v
                 /\ C27_NonNeg(timeEntries[i].pay[1])

\* C29: in every reachable state a teacher with isCheckedIn = true has exactly
\* one open TimeEntry, whose checkInTime equals the teacher's
\* currentCheckInTime, and a teacher with isCheckedIn = false has no open
\* TimeEntry.
C29_StatusMatchesEntries ==
    \A k \in DOMAIN teachers :
        IF teachers[k].isCheckedIn
        THEN /\ Len(OpenEntries(k)) = 1
             /\ Some(OpenEntries(k)[1].checkInTime) = teachers[k].currentCheckInTime
        ELSE OpenEntries(k) = <<>>

\* C30: in every reachable state every completed TimeEntry has
\* checkOutTime >= checkInTime and hoursWorked = (checkOutTime - checkInTime)
\* in hours.
C30_HoursMatchEntry ==
    \A i \in DOMAIN timeEntries :
        timeEntries[i].checkOutTime # None
            => /\ timeEntries[i].checkOutTime[1] >= timeEntries[i].checkInTime
               /\ IsNum(timeEntries[i].hoursWorked[1],
                        (GetTime(timeEntries[i].checkOutTime[1])
                            - GetTime(timeEntries[i].checkInTime)) \div MsPerHour)

\* C28: in every reachable state a session whose admin flag is true implies
\* that a PIN is configured: after a reset issued from any session, no session
\* can perform admin-gated operations until a new PIN is set up and validated.
C28_AdminImpliesPin ==
    \A s \in DOMAIN session : session[s] => appSettings # None

\* C23: when two setup-pin requests with well-formed PINs overlap while no PIN
\* is configured, at most one of them reports success, and the PIN that
\* validates afterwards is the one of the request that reported success: a
\* request reports success only if no settings exist when it stores its own.
C23_OneSetupSucceeds ==
    [][ \A r \in Slots :
          (At(r, "setup-pin", "hash") /\ SetupPinHashed(r))
              => /\ appSettings = None
                 /\ \A q \in Slots :
                       (q # r /\ inflight[q].op = "setup-pin"
                              /\ inflight[q].reply.status = 200)
                           => validatePin(appSettings', inflight[q].pin) ]_vars

\* C24: check-in is a read-then-write sequence with no lock: a request that
\* read the teacher as not checked in goes on to write, whatever the stored
\* status is by then, and then adds an open entry and answers 200; so when two
\* check-ins of one teacher both read before either writes, both succeed and
\* the teacher ends with two open TimeEntries.
C24_ReadNotCheckedIn(r) ==
    /\ At(r, "checkin", "teacher")
    /\ inflight[r].read # None
    /\ ~inflight[r].read[1].isCheckedIn

C24_CheckInRace ==
    [][ \A r \in Slots :
          /\ (C24_ReadNotCheckedIn(r) /\ CheckInUpdate(r))
                => /\ inflight'[r].pc = "entry"
                   /\ inflight[r].id \in DOMAIN teachers
                         => teachers'[inflight[r].id].isCheckedIn
          /\ (At(r, "checkin", "entry") /\ inflight'[r].reply.status = 200
                                        /\ CheckInCreate(r, TRUE))
                => Len(OpenEntries(inflight[r].id)') = Len(OpenEntries(inflight[r].id)) + 1
          /\ \A q \in Slots :
                (/\ q # r
                 /\ inflight[q].id = inflight[r].id
                 /\ C24_ReadNotCheckedIn(q)
                 /\ C24_ReadNotCheckedIn(r)
                 /\ CheckInUpdate(r))
                    => C24_ReadNotCheckedIn(q)' ]_vars

\* both check-ins of teacher 0 have answered 200 and the teacher has two open
\* entries
C24_Witness ==
    /\ \A r \in Slots :
          /\ inflight[r].op = "checkin"
          /\ inflight[r].id = 0
          /\ inflight[r].reply.status = 200
    /\ Len(OpenEntries(0)) = 2

\* C25: there is no rollback: when the write of the time entry fails after the
\* teacher update has succeeded (createTimeEntry in check-in, updateTimeEntry in
\* check-out), the request is answered 500 and the teacher's changed status is
\* kept: a checked-in teacher with no open entry, or a checked-out teacher
\* whose entry stays open.
C25_NoRollback ==
    [][ \A r \in Slots :
          /\ (At(r, "checkin", "entry") /\ CheckInCreate(r, FALSE))
                => /\ inflight'[r].reply = Reply("checkin", 500,
                                                 [message |-> "Failed to check in"])
                   /\ UNCHANGED <<teachers, timeEntries>>
          /\ (At(r, "checkout", "entry") /\ inflight[r].entry # None
                                         /\ CheckOutFinish(r, FALSE))
                => /\ inflight'[r].reply = Reply("checkout", 500,
                                                 [message |-> "Failed to check out"])
                   /\ UNCHANGED <<teachers, timeEntries>>
          /\ (Idle /\ At(r, "checkin", "entry")) => ENABLED CheckInCreate(r, FALSE)
          /\ (Idle /\ At(r, "checkout", "entry") /\ inflight[r].entry # None)
                => ENABLED CheckOutFinish(r, FALSE) ]_vars

\* a check-out answered 500 has left the teacher checked out and the entry
\* open, after a check-in answered 500 had left the teacher checked in with no
\* entry
C25_Witness ==
    /\ \E r \in Slots : inflight[r].reply = Reply("checkout", 500,
                                                  [message |-> "Failed to check out"])
    /\ 0 \in DOMAIN teachers
    /\ ~teachers[0].isCheckedIn
    /\ Len(OpenEntries(0)) = 1

====
